---- MODULE Spec2Model ----
(***************************************************************************)
(* axum-safe-path: the traversal classifier (is_traversal_attack) and the  *)
(* three extraction channels built on it (route parameter, form field,     *)
(* JSON field), src/src/lib.rs.                                            *)
(*                                                                         *)
(* A path is a sequence of one-character strings.  The classifier relies   *)
(* on std::path::Path::components, whose decomposition depends on the      *)
(* target the crate is built for; the target is the variable `host`.       *)
(***************************************************************************)
EXTENDS Integers, Sequences, FiniteSets

\* ------------------------------------------------------------------------
\* Bounds and input alphabets
\* ------------------------------------------------------------------------

\* Longest path string the classifier specification enumerates.
MaxLen == 5

\* Number of extraction attempts in flight in the pipeline specification.
NumAttempts == 2

\* Characters of a path: both separators, dot, colon, one letter, and `?`.
Chars == {"/", "\\", ".", ":", "c", "?"}

Letters == {"c", "U", "N", "C"}

Hosts == {"unix", "windows"}

\* All path strings of length at most n.
PathsUpTo(n) == UNION {[1..k -> Chars] : k \in 0..n}

Paths == PathsUpTo(MaxLen)

\* ------------------------------------------------------------------------
\* std::path::Path::components, as is_traversal_attack calls it
\* ------------------------------------------------------------------------

Drop(s, n) == SubSeq(s, n + 1, Len(s))

Take(s, n) == SubSeq(s, 1, n)

StartsWith(s, p) == Len(s) >= Len(p) /\ Take(s, Len(p)) = p

\* is_sep_byte / is_verbatim_sep of the target.
IsSep(host, verbatim, ch) ==
    IF host = "windows"
    THEN IF verbatim THEN ch = "\\" ELSE ch \in {"/", "\\"}
    ELSE ch = "/"

\* Index of the first separator of s, 0 when there is none.
FirstSep(host, verbatim, s) ==
    LET idx == {i \in 1..Len(s) : IsSep(host, verbatim, s[i])}
    IN  IF idx = {} THEN 0 ELSE CHOOSE i \in idx : \A j \in idx : i <= j

\* parse_next_component of the Windows prefix parser: the text up to the
\* first separator, and what follows that separator.
NextComponent(s, verbatim) ==
    LET i == FirstSep("windows", verbatim, s)
    IN  IF i = 0 THEN [comp |-> s, rest |-> <<>>]
        ELSE [comp |-> Take(s, i - 1), rest |-> Drop(s, i)]

NoPrefix == [kind |-> "None", len |-> 0, verbatim |-> FALSE, implicit_root |-> FALSE]

MkPrefix(k, n, v, r) == [kind |-> k, len |-> n, verbatim |-> v, implicit_root |-> r]

IsDrive(s) == Len(s) >= 2 /\ s[1] \in Letters /\ s[2] = ":"

\* parse_prefix of the Windows target.
WindowsPrefix(s) ==
    IF Len(s) >= 2 /\ IsSep("windows", FALSE, s[1]) /\ IsSep("windows", FALSE, s[2])
    THEN LET r == Drop(s, 2)
         IN  IF StartsWith(s, <<"\\", "\\", "?", "\\">>)
             THEN LET v == Drop(s, 4)
                  IN  IF StartsWith(v, <<"U", "N", "C", "\\">>)
                      THEN LET a == NextComponent(Drop(v, 4), TRUE)
                               b == NextComponent(a.rest, TRUE)
                           IN  MkPrefix("VerbatimUNC",
                                        8 + Len(a.comp)
                                          + (IF Len(b.comp) > 0 THEN 1 + Len(b.comp) ELSE 0),
                                        TRUE, TRUE)
                      ELSE IF IsDrive(v) /\ (Len(v) = 2 \/ IsSep("windows", FALSE, v[3]))
                      THEN MkPrefix("VerbatimDisk", 6, TRUE, TRUE)
                      ELSE MkPrefix("Verbatim", 4 + Len(NextComponent(v, TRUE).comp),
                                    TRUE, TRUE)
             ELSE IF Len(r) >= 2 /\ r[1] = "." /\ IsSep("windows", FALSE, r[2])
             THEN MkPrefix("DeviceNS", 4 + Len(NextComponent(Drop(r, 2), FALSE).comp),
                           FALSE, TRUE)
             ELSE LET a == NextComponent(r, FALSE)
                      b == NextComponent(a.rest, FALSE)
                  IN  IF Len(a.comp) > 0 /\ Len(b.comp) > 0
                      THEN MkPrefix("UNC", 2 + Len(a.comp) + 1 + Len(b.comp), FALSE, TRUE)
                      ELSE NoPrefix
    ELSE IF IsDrive(s) THEN MkPrefix("Disk", 2, FALSE, FALSE)
    ELSE NoPrefix

\* sys::path::parse_prefix: the Unix target has no prefixes.
parse_prefix(host, s) == IF host = "windows" THEN WindowsPrefix(s) ELSE NoPrefix

Comp(k, t) == [kind |-> k, text |-> t]

\* Components::parse_single_component: `.` and the empty text give nothing
\* (None, the empty sequence here) outside verbatim paths.
parse_single_component(verbatim, c) ==
    IF c = <<".">> THEN (IF verbatim THEN <<Comp("CurDir", <<>>)>> ELSE <<>>)
    ELSE IF c = <<".", ".">> THEN <<Comp("ParentDir", <<>>)>>
    ELSE IF c = <<>> THEN <<>>
    ELSE <<Comp("Normal", c)>>

\* The Body state of Components::next: parse_next_component until the path
\* is used up.
RECURSIVE ParseBody(_, _, _)
ParseBody(host, verbatim, s) ==
    IF s = <<>> THEN <<>>
    ELSE LET i    == FirstSep(host, verbatim, s)
             c    == IF i = 0 THEN s ELSE Take(s, i - 1)
             size == Len(c) + (IF i = 0 THEN 0 ELSE 1)
         IN  parse_single_component(verbatim, c) \o ParseBody(host, verbatim, Drop(s, size))

\* Components::include_cur_dir, for a path with neither prefix nor root.
include_cur_dir(host, s) ==
    /\ Len(s) >= 1
    /\ s[1] = "."
    /\ (Len(s) = 1 \/ IsSep(host, FALSE, s[2]))

\* Path::components, collected: the Prefix, StartDir and Body states in order.
components(host, s) ==
    LET p        == parse_prefix(host, s)
        rest     == Drop(s, p.len)
        physRoot == rest # <<>> /\ IsSep(host, FALSE, rest[1])
        pre      == IF p.kind = "None" THEN <<>> ELSE <<Comp("Prefix", Take(s, p.len))>>
    IN  IF physRoot
        THEN pre \o <<Comp("RootDir", <<>>)>> \o ParseBody(host, p.verbatim, Tail(rest))
        ELSE IF p.kind # "None"
        THEN IF p.implicit_root /\ ~p.verbatim
             THEN pre \o <<Comp("RootDir", <<>>)>> \o ParseBody(host, p.verbatim, rest)
             ELSE pre \o ParseBody(host, p.verbatim, rest)
        ELSE IF include_cur_dir(host, s)
        THEN <<Comp("CurDir", <<>>)>> \o ParseBody(host, FALSE, Tail(rest))
        ELSE ParseBody(host, FALSE, rest)

\* ------------------------------------------------------------------------
\* The classifier
\* ------------------------------------------------------------------------

\* The closure handed to `any`: matches!(component, ParentDir | Prefix(_) | RootDir).
IsTraversalComponent(c) == c.kind \in {"ParentDir", "Prefix", "RootDir"}

\* Iterator::any: walk the components from the front, stop at the first match.
RECURSIVE Any(_, _)
Any(cs, i) ==
    IF i > Len(cs) THEN FALSE
    ELSE IF IsTraversalComponent(cs[i]) THEN TRUE
    ELSE Any(cs, i + 1)

\* Mutant: the deny-list without RootDir.
is_traversal_attack_no_root(host, path) ==
    \E i \in 1..Len(components(host, path)) :
        components(host, path)[i].kind \in {"ParentDir", "Prefix"}

\* Mutant: the verdict is taken from the first component alone.
is_traversal_attack_first_only(host, path) ==
    /\ components(host, path) # <<>>
    /\ IsTraversalComponent(components(host, path)[1])

\* Mutant: CurDir is put on the deny-list as well.
is_traversal_attack_deny_cur_dir(host, path) ==
    \E i \in 1..Len(components(host, path)) :
        components(host, path)[i].kind \in {"ParentDir", "Prefix", "RootDir", "CurDir"}

\* is_traversal_attack: TRUE when the path is rejected.
is_traversal_attack(host, path) == Any(components(host, path), 1)

\* ------------------------------------------------------------------------
\* Results, rejections and responses
\* ------------------------------------------------------------------------

REJECTION_MESSAGE == "Invalid path: possible traversal attack detected"

\* StatusCode::BAD_REQUEST
BAD_REQUEST == 400

Channels == {"route", "form", "json"}

\* What the upstream decoder of a channel hands over: a path, or its own error.
DecodedOk(p) == [ok |-> TRUE, path |-> p, err |-> "none"]

DecodeFailed(e) == [ok |-> FALSE, path |-> <<>>, err |-> e]

\* Result values of the two entry points.  tag is one of
\*   "Ok"              Ok(SafePath(path))
\*   "TraversalAttack" Err(SafePathRejection::TraversalAttack)
\*   "PathExtraction"  Err(SafePathRejection::PathExtraction(err))
\*   "Custom"          Err(serde::de::Error::custom(msg))
\*   "Upstream"        Err(err), the deserializer's own error
\* scanned records whether is_traversal_attack ran.
MkResult(t, p, e, m, sc) == [tag |-> t, path |-> p, err |-> e, msg |-> m, scanned |-> sc]

NoResult == MkResult("None", <<>>, "none", "", FALSE)

\* Responses.  A PathRejection's own response is opaque: it is named by the
\* rejection it renders.
MkResponse(st, b, of) == [status |-> st, body |-> b, inner |-> of]

NoResponse == MkResponse(0, "", "none")

PathRejectionResponse(e) == MkResponse(0, "", e)

\* <SafePathRejection as Display>::fmt
fmt(r) ==
    IF r.tag = "TraversalAttack" THEN REJECTION_MESSAGE
    ELSE r.err

\* <SafePathRejection as IntoResponse>::into_response
into_response(r) ==
    IF r.tag = "TraversalAttack"
    THEN MkResponse(BAD_REQUEST, REJECTION_MESSAGE, "none")
    ELSE PathRejectionResponse(r.err)

\* Mutant: the classifier result is used the wrong way round.
from_request_parts_inverted(host, input) ==
    IF ~input.ok
    THEN MkResult("PathExtraction", <<>>, input.err, "", FALSE)
    ELSE IF is_traversal_attack(host, input.path)
    THEN MkResult("Ok", input.path, "none", "", TRUE)
    ELSE MkResult("TraversalAttack", <<>>, "none", "", TRUE)

\* Mutant: a failed Path extraction is reported as a traversal attack.
from_request_parts_masks_upstream(host, input) ==
    IF ~input.ok \/ is_traversal_attack(host, input.path)
    THEN MkResult("TraversalAttack", <<>>, "none", "", TRUE)
    ELSE MkResult("Ok", input.path, "none", "", TRUE)

\* <SafePath as FromRequestParts>::from_request_parts, from the point where
\* the awaited Path extractor has produced `input`.
from_request_parts(host, input) ==
    IF ~input.ok
    THEN MkResult("PathExtraction", <<>>, input.err, "", FALSE)
    ELSE IF ~is_traversal_attack(host, input.path)
    THEN MkResult("Ok", input.path, "none", "", TRUE)
    ELSE MkResult("TraversalAttack", <<>>, "none", "", TRUE)

\* Mutant: deserialization wraps the path without running the classifier.
deserialize_unchecked(host, input) ==
    IF ~input.ok
    THEN MkResult("Upstream", <<>>, input.err, "", FALSE)
    ELSE MkResult("Ok", input.path, "none", "", FALSE)

\* <SafePath as serde::Deserialize>::deserialize, `input` being what
\* PathBuf::deserialize returns.
deserialize(host, input) ==
    IF ~input.ok
    THEN MkResult("Upstream", <<>>, input.err, "", FALSE)
    ELSE IF is_traversal_attack(host, input.path)
    THEN MkResult("Custom", <<>>, "none", REJECTION_MESSAGE, TRUE)
    ELSE MkResult("Ok", input.path, "none", "", TRUE)

\* The entry point a channel goes through.
Extract(host, channel, input) ==
    IF channel = "route" THEN from_request_parts(host, input)
    ELSE deserialize(host, input)

\* ------------------------------------------------------------------------
\* State
\* ------------------------------------------------------------------------

VARIABLES
    host,      \* the target the crate is built for
    cpath,     \* classifier run: the candidate path
    cdone,     \* classifier run: is_traversal_attack has returned
    cverdict,  \* classifier run: what it returned
    att,       \* extraction attempts, by attempt number
    held,      \* a SafePath value in the hands of the crate's user
    recheck    \* the last run of the classifier on held's path

vars == <<host, cpath, cdone, cverdict, att, held, recheck>>

Attempts == 1..NumAttempts

\* Paths the upstream decoders deliver in the pipeline specification: the
\* shapes of the crate's unit tests over the model's alphabet.
SamplePaths ==
    { <<>>,
      <<".">>,
      <<"c", "/", "c">>,
      <<".", ".">>,
      <<"c", "/", ".", ".">>,
      <<"/", "c">>,
      <<"c", ":", "\\", "c">> }

\* Errors of the upstream decoders (PathRejection, the deserializer's error).
UpstreamErrors == {"MissingPathParams", "FailedToDeserialize"}

Inputs == {DecodedOk(p) : p \in SamplePaths} \cup {DecodeFailed(e) : e \in UpstreamErrors}

\* Longest path the crate's user builds by hand in the user specification.
MaxUserLen == 3

UserPaths == PathsUpTo(MaxUserLen)

IdleAttempt ==
    [pc |-> "idle", channel |-> "none", input |-> DecodeFailed("none"),
     result |-> NoResult, response |-> NoResponse]

NoSafePath == [present |-> FALSE, path |-> <<>>, origin |-> "none"]

NoRecheck == [ran |-> FALSE, attack |-> FALSE]

ClassifierIdle == cpath = <<>> /\ cdone = FALSE /\ cverdict = FALSE

PipelineIdle == att = [a \in Attempts |-> IdleAttempt]

UserIdle == held = NoSafePath /\ recheck = NoRecheck

\* ------------------------------------------------------------------------
\* Classifier specification: one call of is_traversal_attack
\* ------------------------------------------------------------------------

InitClassify ==
    /\ host \in Hosts
    /\ cpath \in Paths
    /\ cdone = FALSE
    /\ cverdict = FALSE
    /\ PipelineIdle
    /\ UserIdle

Classify ==
    /\ ~cdone
    /\ cdone' = TRUE
    /\ cverdict' = is_traversal_attack(host, cpath)
    /\ UNCHANGED <<host, cpath, att, held, recheck>>

NextClassify == Classify

SpecClassify == InitClassify /\ [][NextClassify]_vars

\* ------------------------------------------------------------------------
\* Pipeline specification: extraction attempts on the three channels
\* ------------------------------------------------------------------------

Init ==
    /\ host \in Hosts
    /\ ClassifierIdle
    /\ PipelineIdle
    /\ UserIdle

\* The framework starts an extraction: SafePath::from_request_parts awaits the
\* Path extractor, or the body decoder calls SafePath::deserialize.
Call(a, ch, input) ==
    /\ att[a].pc = "idle"
    /\ att' = [att EXCEPT ![a] = [@ EXCEPT !.pc = "called", !.channel = ch, !.input = input]]
    /\ UNCHANGED <<host, cpath, cdone, cverdict, held, recheck>>

\* Mutant: the verdict is taken from a buffer shared with the next attempt.
FinishShared(a) ==
    LET b == (a % NumAttempts) + 1
        seen == IF att[b].pc = "idle" THEN att[a].input ELSE att[b].input
    IN  /\ att[a].pc = "called"
        /\ att' = [att EXCEPT ![a] =
                     [@ EXCEPT !.pc = "done",
                               !.result = Extract(host, att[a].channel, seen)]]
        /\ UNCHANGED <<host, cpath, cdone, cverdict, held, recheck>>

\* The entry point runs to its result on the upstream decoder's outcome.
Finish(a) ==
    /\ att[a].pc = "called"
    /\ att' = [att EXCEPT ![a] =
                 [@ EXCEPT !.pc = "done",
                           !.result = Extract(host, att[a].channel, att[a].input)]]
    /\ UNCHANGED <<host, cpath, cdone, cverdict, held, recheck>>

\* axum turns the rejection of a failed route extraction into the response.
Respond(a) ==
    /\ att[a].pc = "done"
    /\ att[a].channel = "route"
    /\ att[a].result.tag \in {"TraversalAttack", "PathExtraction"}
    /\ att' = [att EXCEPT ![a] =
                 [@ EXCEPT !.pc = "responded", !.response = into_response(att[a].result)]]
    /\ UNCHANGED <<host, cpath, cdone, cverdict, held, recheck>>

Next ==
    \/ \E a \in Attempts, ch \in Channels, input \in Inputs : Call(a, ch, input)
    \/ \E a \in Attempts : Finish(a)
    \/ \E a \in Attempts : Respond(a)

Spec == Init /\ [][Next]_vars

\* ------------------------------------------------------------------------
\* User specification: what code using the crate can do with a SafePath
\* ------------------------------------------------------------------------

InitUser ==
    /\ host \in Hosts
    /\ ClassifierIdle
    /\ PipelineIdle
    /\ UserIdle

\* A handler or a deserialized payload receives the SafePath an entry point built.
Obtain(ch, p) ==
    /\ ~held.present
    /\ Extract(host, ch, DecodedOk(p)).tag = "Ok"
    /\ held' = [present |-> TRUE, path |-> Extract(host, ch, DecodedOk(p)).path,
                origin |-> "extracted"]
    /\ recheck' = NoRecheck
    /\ UNCHANGED <<host, cpath, cdone, cverdict, att>>

\* `pub struct SafePath(pub PathBuf)`: the tuple constructor is public.
Construct(p) ==
    /\ ~held.present
    /\ held' = [present |-> TRUE, path |-> p, origin |-> "constructed"]
    /\ recheck' = NoRecheck
    /\ UNCHANGED <<host, cpath, cdone, cverdict, att>>

\* The public field is assignable: `safe_path.0 = p`.
SetField(p) ==
    /\ held.present
    /\ held.path # p
    /\ held' = [held EXCEPT !.path = p, !.origin = "assigned"]
    /\ recheck' = NoRecheck
    /\ UNCHANGED <<host, cpath, cdone, cverdict, att>>

\* The classifier is run again on the path a SafePath wraps.
Revalidate ==
    /\ held.present
    /\ ~recheck.ran
    /\ recheck' = [ran |-> TRUE, attack |-> is_traversal_attack(host, held.path)]
    /\ UNCHANGED <<host, cpath, cdone, cverdict, att, held>>

\* The value is dropped at the end of the handler's scope.
Release ==
    /\ held.present
    /\ held' = NoSafePath
    /\ recheck' = NoRecheck
    /\ UNCHANGED <<host, cpath, cdone, cverdict, att>>

NextUser ==
    \/ \E ch \in Channels, p \in UserPaths : Obtain(ch, p)
    \/ \E p \in UserPaths : Construct(p)
    \/ \E p \in UserPaths : SetField(p)
    \/ Revalidate
    \/ Release

SpecUser == InitUser /\ [][NextUser]_vars

\* ------------------------------------------------------------------------
\* Properties
\* ------------------------------------------------------------------------

KindsOf(h, p) == {components(h, p)[i].kind : i \in 1..Len(components(h, p))}

\* The string has a `..` segment: two dots bounded on each side by an end of
\* the string or a separator of the target.
HasParentDirSegment(h, s) ==
    \E i \in 1..(Len(s) - 1) :
        /\ s[i] = "." /\ s[i + 1] = "."
        /\ (i = 1 \/ IsSep(h, FALSE, s[i - 1]))
        /\ (i + 1 = Len(s) \/ IsSep(h, FALSE, s[i + 2]))

\* The string is made of named segments and `.` segments only: it does not
\* start with a separator, has no `..` segment and, on Windows, no drive.
OnlyNormalOrDotSegments(h, s) ==
    /\ ~(Len(s) >= 1 /\ IsSep(h, FALSE, s[1]))
    /\ ~HasParentDirSegment(h, s)
    /\ (h = "windows" => ~IsDrive(s))

\* The string starts with a drive letter and colon, or with a backslash.
HasPlatformPrefix(s) == IsDrive(s) \/ (Len(s) >= 1 /\ s[1] = "\\")

Finished(a) == att[a].pc \in {"done", "responded"}

Rejected(a) == att[a].result.tag \in {"TraversalAttack", "Custom"}

\* The text a rejected attempt carries to its caller.
MessageOf(a) == IF att[a].channel = "route" THEN fmt(att[a].result) ELSE att[a].result.msg

\* C1: is_traversal_attack returns false exactly when every component of the
\* path is CurDir or Normal, true exactly when some component is ParentDir,
\* RootDir or Prefix; a path that starts with `/` is always rejected.
C1_AcceptIffOnlyCurDirOrNormal ==
    cdone =>
        /\ (~cverdict) <=> (KindsOf(host, cpath) \subseteq {"CurDir", "Normal"})
        /\ cverdict <=> (KindsOf(host, cpath) \cap {"ParentDir", "RootDir", "Prefix"} # {})
        /\ (cpath # <<>> /\ cpath[1] = "/") => cverdict

C1_RootedPathRejected ==
    /\ cdone
    /\ cpath = <<"/", "c", "/", "c">>
    /\ cverdict

\* C2: every SafePath value in existence has only CurDir or Normal components.
C2_EverySafePathValidated ==
    held.present => KindsOf(host, held.path) \subseteq {"CurDir", "Normal"}

\* What does hold of the code: a SafePath as an entry point hands it over,
\* before user code touches it, has only CurDir or Normal components.
ExtractedSafePathValidated ==
    (held.present /\ held.origin = "extracted") =>
        KindsOf(host, held.path) \subseteq {"CurDir", "Normal"}

\* C3: a path with a `..` segment is rejected wherever that segment stands,
\* also after any number of allowed components.
C3_ParentDirAnywhereRejects ==
    (cdone /\ HasParentDirSegment(host, cpath)) => cverdict

C3_TrailingParentDirRejected ==
    /\ cdone
    /\ cpath = <<"c", "/", ".", ".">>
    /\ cverdict

\* C4: a path with a drive-letter or backslash prefix is rejected on every
\* target the crate is built for.
C4_PlatformPrefixRejectedOnEveryHost ==
    (cdone /\ HasPlatformPrefix(cpath)) => cverdict

\* C5: a path made only of named segments and `.` segments is accepted; so
\* are the empty path and the path `.`.
C5_NormalAndDotAccepted ==
    /\ (cdone /\ OnlyNormalOrDotSegments(host, cpath)) => ~cverdict
    /\ (cdone /\ cpath \in {<<>>, <<".">>}) => ~cverdict

C5_DotSlashNameAccepted ==
    /\ cdone
    /\ cpath = <<".", "/", "c", "/", ".">>
    /\ ~cverdict

\* C6: a route extraction whose path parameter decoded ends either in
\* TraversalAttack, rendered as 400 with the fixed message, when the path has
\* a denied component, or in a SafePath wrapping the decoded path unchanged.
C6_RouteOutcome ==
    \A a \in Attempts :
        (Finished(a) /\ att[a].channel = "route" /\ att[a].input.ok) =>
            IF KindsOf(host, att[a].input.path) \subseteq {"CurDir", "Normal"}
            THEN /\ att[a].result.tag = "Ok"
                 /\ att[a].result.path = att[a].input.path
                 /\ att[a].pc = "done"
                 /\ att[a].response = NoResponse
            ELSE /\ att[a].result.tag = "TraversalAttack"
                 /\ att[a].pc = "responded" =>
                        /\ att[a].response.status = 400
                        /\ att[a].response.body
                             = "Invalid path: possible traversal attack detected"

C6_RouteRejectedAndAccepted ==
    \E a, b \in Attempts :
        /\ att[a].channel = "route" /\ att[a].input.ok
        /\ att[a].pc = "responded" /\ att[a].response.status = 400
        /\ att[b].channel = "route" /\ att[b].input.ok
        /\ att[b].pc = "done" /\ att[b].result.tag = "Ok"
        /\ att[b].result.path = <<"c", "/", "c">>

\* C7: two attempts given the same decoded path reach the same verdict on
\* whatever channels they run, a rejection carries the fixed message on every
\* channel, and form and JSON reject by a custom deserialization error without
\* ever building a response.
C7_ChannelEquivalence ==
    /\ \A a, b \in Attempts :
           (/\ Finished(a) /\ Finished(b)
            /\ att[a].input.ok /\ att[b].input.ok
            /\ att[a].input.path = att[b].input.path) =>
               /\ Rejected(a) <=> Rejected(b)
               /\ Rejected(a) =>
                      /\ MessageOf(a) = MessageOf(b)
                      /\ MessageOf(a) = "Invalid path: possible traversal attack detected"
    /\ \A a \in Attempts :
           (Finished(a) /\ att[a].channel \in {"form", "json"}) =>
               /\ att[a].pc = "done"
               /\ att[a].response = NoResponse
               /\ att[a].result.tag \in {"Ok", "Custom", "Upstream"}
    /\ \A a \in Attempts :
           (att[a].pc = "responded" /\ Rejected(a)) =>
               att[a].response.body = MessageOf(a)

C7_SamePathRejectedOnTwoChannels ==
    \E a, b \in Attempts :
        /\ att[a].channel = "route" /\ att[b].channel \in {"form", "json"}
        /\ Finished(a) /\ Finished(b)
        /\ att[a].input = DecodedOk(<<"c", "/", ".", ".">>)
        /\ att[b].input = att[a].input
        /\ Rejected(a) /\ Rejected(b)

\* C8: an attempt whose upstream decode failed never runs the classifier and
\* ends with the upstream error itself: PathExtraction(inner), rendered as
\* inner's own response, on the route channel, the deserializer's error on
\* the body channels; a traversal rejection implies a decoded input.
C8_UpstreamFailureForwarded ==
    /\ \A a \in Attempts :
           (Finished(a) /\ ~att[a].input.ok) =>
               /\ ~att[a].result.scanned
               /\ att[a].result.err = att[a].input.err
               /\ att[a].result.tag
                    = (IF att[a].channel = "route" THEN "PathExtraction" ELSE "Upstream")
               /\ att[a].pc = "responded" =>
                      att[a].response = PathRejectionResponse(att[a].input.err)
    /\ \A a \in Attempts : Rejected(a) => att[a].input.ok

C8_FailedDecodeOnRouteAndBody ==
    \E a, b \in Attempts :
        /\ att[a].channel = "route" /\ ~att[a].input.ok /\ att[a].pc = "responded"
        /\ att[b].channel \in {"form", "json"} /\ ~att[b].input.ok /\ att[b].pc = "done"

\* C9: running the classifier again on the path of a SafePath accepts.
C9_RevalidationAccepts == recheck.ran => ~recheck.attack

\* A step of one attempt leaves every other attempt as it was.
OneAttemptPerStep ==
    \A a, b \in Attempts : (a # b /\ att[a]' # att[a]) => att[b]' = att[b]

\* An attempt's outcome is the one its entry point gives on its own input.
OutcomeOfOwnInput ==
    \A a \in Attempts :
        /\ Finished(a) => att[a].result = Extract(host, att[a].channel, att[a].input)
        /\ att[a].pc = "responded" =>
               att[a].response = into_response(Extract(host, att[a].channel, att[a].input))

\* C10: however attempts interleave, each attempt's outcome is that of its own
\* input run alone, and no step of one attempt changes another attempt.
C10_AttemptsIndependent == []OutcomeOfOwnInput /\ [][OneAttemptPerStep]_vars

C10_InterleavedDifferentOutcomes ==
    /\ att[1].pc = "done" /\ att[1].result.tag = "Ok"
    /\ att[1].input = DecodedOk(<<"c", "/", "c">>)
    /\ att[2].pc = "responded" /\ att[2].result.tag = "TraversalAttack"
    /\ att[2].input = DecodedOk(<<".", ".">>)

====
